---- MODULE Spec2Model ----
(***************************************************************************)
(* Model of the data-preparation components:                               *)
(*   src/src/components/data_ingestion.py  (MongoDBIngestionStrategy,      *)
(*                                          DataIngestor)                  *)
(*   src/src/components/data_cleaning.py   (DropMissingValuesStrategy)     *)
(* A DataFrame is modelled as its column labels, its row labels (index)    *)
(* and its cells; a MongoDB document as a function from field names to     *)
(* values.  Field order inside one document is taken to be FieldOrder.     *)
(***************************************************************************)
EXTENDS Integers, Sequences, FiniteSets, TLC

\* ---------------------------------------------------------------- bounds
\* documents in the collection, when the ingestor is driven with any input
MaxStore == 1
\* documents in the collection, when a valid ingestion is followed by cleaning
MaxRecords == 2
\* rows of a frame handed to a cleaning strategy
MaxRows == 3

\* ------------------------------------------------------- values and cells
\* Python's None and the float NaN pandas puts in a cell that has no value.
None == "<None>"
NaN == "<NaN>"

\* pandas.isna on a scalar cell (used by DataFrame.dropna, data_cleaning.py:30)
IsNa(v) == v \in {None, NaN}

Range(s) == {s[i] : i \in 1..Len(s)}

\* ------------------------------------------------------------- DataFrames
\* "no DataFrame": the value of a name that was never bound to a frame
NoFrame == [columns |-> <<"<none>">>, index |-> <<>>, values |-> <<>>]

\* the positions 1..n of a sequence of length n, in order
Positions(n) == [i \in 1..n |-> i]

\* the sub-sequence of s at the positions pos
Take(s, pos) == [k \in 1..Len(pos) |-> s[pos[k]]]

\* A dict (connection_details, a MongoDB document) is a function over all the
\* keys of interest whose value is Absent for a key the dict does not have.
Absent == "<absent>"

\* k in d
HasKey(d, k) == d[k] # Absent

\* d.get(k): None for a key the dict does not have
Get(d, k) == IF HasKey(d, k) THEN d[k] ELSE None

\* order in which a document's keys are enumerated
FieldOrder == <<"_id", "a", "b">>

KeysOf(doc) == SelectSeq(FieldOrder, LAMBDA f : HasKey(doc, f))

\* column labels pandas infers from a list of dicts: union of the keys,
\* in first-seen order
RECURSIVE InferColumns(_, _)
InferColumns(data, cols) ==
    IF data = <<>> THEN cols
    ELSE InferColumns(Tail(data),
                      cols \o SelectSeq(KeysOf(Head(data)),
                                        LAMBDA k : k \notin Range(cols)))

\* a mutant of DataFrame: columns taken from the first document only
DataFrame_FirstOnly(data) ==
    LET cols == IF data = <<>> THEN <<>> ELSE KeysOf(Head(data))
    IN [columns |-> cols,
        index   |-> [i \in 1..Len(data) |-> i - 1],
        values  |-> [i \in 1..Len(data) |->
                        [j \in 1..Len(cols) |->
                            IF HasKey(data[i], cols[j])
                            THEN data[i][cols[j]] ELSE NaN]]]

\* pd.DataFrame(data) for a list of documents (data_ingestion.py:60):
\* one row per document, RangeIndex 0..N-1, NaN where a document lacks a key
DataFrame(data) ==
    LET cols == InferColumns(data, <<>>)
    IN [columns |-> cols,
        index   |-> [i \in 1..Len(data) |-> i - 1],
        values  |-> [i \in 1..Len(data) |->
                        [j \in 1..Len(cols) |->
                            IF HasKey(data[i], cols[j])
                            THEN data[i][cols[j]] ELSE NaN]]]

\* df.drop(columns=[name]) (data_ingestion.py:64)
DropColumn(df, name) ==
    LET pos == SelectSeq(Positions(Len(df.columns)),
                   LAMBDA j : df.columns[j] # name)
    IN [columns |-> Take(df.columns, pos),
        index   |-> df.index,
        values  |-> [i \in 1..Len(df.values) |-> Take(df.values[i], pos)]]

\* a mutant of DropNa: how='all' (a row is dropped only when all cells miss)
DropNa_All(df) ==
    LET pos == SelectSeq(Positions(Len(df.index)),
                   LAMBDA i : \/ Len(df.columns) = 0
                              \/ \E j \in 1..Len(df.columns) : ~IsNa(df.values[i][j]))
    IN [columns |-> df.columns,
        index   |-> Take(df.index, pos),
        values  |-> Take(df.values, pos)]

\* a mutant of DropNa: rows are removed while they are iterated over, so the
\* row after a removed row is skipped and kept
RECURSIVE RemovedWhileIterating(_, _)
RemovedWhileIterating(df, i) ==
    IF i = 0 THEN FALSE
    ELSE /\ \E j \in 1..Len(df.columns) : IsNa(df.values[i][j])
         /\ ~RemovedWhileIterating(df, i - 1)

DropNa_SkipNext(df) ==
    LET pos == SelectSeq(Positions(Len(df.index)),
                   LAMBDA i : ~RemovedWhileIterating(df, i))
    IN [columns |-> df.columns,
        index   |-> Take(df.index, pos),
        values  |-> Take(df.values, pos)]

\* data.dropna() with its defaults axis=0, how='any' (data_cleaning.py:30):
\* keeps the rows without a missing cell, with their labels, in order
DropNa(df) ==
    LET pos == SelectSeq(Positions(Len(df.index)),
                   LAMBDA i : \A j \in 1..Len(df.columns) : ~IsNa(df.values[i][j]))
    IN [columns |-> df.columns,
        index   |-> Take(df.index, pos),
        values  |-> Take(df.values, pos)]

\* -------------------------------------------------- log entries and I/O
\* What a call does that is visible outside it, in the order it happens:
\* logger.info / logger.error entries and operations on the MongoDB client.
LogInfo(msg) == [ev |-> "info", arg |-> msg]
LogError(fault) == [ev |-> "error", arg |-> fault]
Io(op) == [ev |-> "io", arg |-> op]

MsgConnecting == "Connecting to MongoDB..."
MsgCompleted == "Data ingestion from MongoDB completed successfully."
MsgSwitching == "Switching data ingestion strategy."
MsgIngesting == "Ingesting data using the current strategy."

\* the result of a call: it returned df, or it raised error
Return(evs, df) == [status |-> "returned", error |-> "-", df |-> df, events |-> evs]
Raise(evs, fault) == [status |-> "raised", error |-> fault, df |-> NoFrame, events |-> evs]

\* a mutant of Except: the fault is logged and swallowed, an empty frame is returned
Except_Swallow(evs, fault) ==
    Return(Append(evs, LogError(fault)), DataFrame(<<>>))

\* except Exception as e: logger.error(...); raise   (data_ingestion.py:68-70)
Except(evs, fault) == Raise(Append(evs, LogError(fault)), fault)

\* ------------------------------------------------ MongoDBIngestionStrategy
RequiredKeys == <<"uri", "database", "collection">>

\* Python truthiness of a str-or-None value
Truthy(v) == v \notin {None, ""}

\* a mutant of All: any(...) instead of all(...)
All_Any(vals) == \E i \in 1..Len(vals) : Truthy(vals[i])

\* all([...]) (data_ingestion.py:48)
All(vals) == \A i \in 1..Len(vals) : Truthy(vals[i])

\* The step of ingest at which the environment makes the call fail, if it
\* gets that far: MongoClient(uri), collection.find(), pd.DataFrame(data),
\* df.drop(...); and the exception raised there.
Faults == {"none", "connect", "fetch", "convert", "drop"}
ErrorOf(fault) == fault \o "_error"

\* a mutant of MongoIngest: a failed MongoClient(uri) is tried once more
MongoIngest_Retry(connection_details, fault, coll) ==
    LET uri == Get(connection_details, "uri")
        database_name == Get(connection_details, "database")
        collection_name == Get(connection_details, "collection")
        started == <<LogInfo(MsgConnecting)>>
        connected == Append(started, Io("MongoClient"))
        fetched == Append(connected, Io("find"))
        df == DataFrame(coll)
    IN  IF ~All(<<uri, database_name, collection_name>>)
        THEN Except(started, "ValueError")
        ELSE IF fault = "connect"
        THEN Except(Append(connected, Io("MongoClient")), ErrorOf(fault))
        ELSE IF fault \in {"fetch", "convert"}
        THEN Except(fetched, ErrorOf(fault))
        ELSE IF "_id" \in Range(df.columns)
        THEN IF fault = "drop"
             THEN Except(fetched, ErrorOf(fault))
             ELSE Return(Append(fetched, LogInfo(MsgCompleted)), DropColumn(df, "_id"))
        ELSE Return(Append(fetched, LogInfo(MsgCompleted)), df)

\* a mutant of MongoIngest: '_id' is looked up in the first document only
MongoIngest_FirstId(connection_details, fault, coll) ==
    LET uri == Get(connection_details, "uri")
        database_name == Get(connection_details, "database")
        collection_name == Get(connection_details, "collection")
        started == <<LogInfo(MsgConnecting)>>
        connected == Append(started, Io("MongoClient"))
        fetched == Append(connected, Io("find"))
        df == DataFrame(coll)
    IN  IF ~All(<<uri, database_name, collection_name>>)
        THEN Except(started, "ValueError")
        ELSE IF fault = "connect"
        THEN Except(connected, ErrorOf(fault))
        ELSE IF fault \in {"fetch", "convert"}
        THEN Except(fetched, ErrorOf(fault))
        ELSE IF coll # <<>> /\ HasKey(Head(coll), "_id")
        THEN IF fault = "drop"
             THEN Except(fetched, ErrorOf(fault))
             ELSE Return(Append(fetched, LogInfo(MsgCompleted)), DropColumn(df, "_id"))
        ELSE Return(Append(fetched, LogInfo(MsgCompleted)), df)

\* MongoDBIngestionStrategy.ingest(connection_details) against a collection
\* holding the documents coll (data_ingestion.py:29-70)
MongoIngest(connection_details, fault, coll) ==
    LET uri == Get(connection_details, "uri")
        database_name == Get(connection_details, "database")
        collection_name == Get(connection_details, "collection")
        started == <<LogInfo(MsgConnecting)>>
        connected == Append(started, Io("MongoClient"))
        fetched == Append(connected, Io("find"))
        df == DataFrame(coll)
    IN  IF ~All(<<uri, database_name, collection_name>>)
        THEN Except(started, "ValueError")
        ELSE IF fault = "connect"
        THEN Except(connected, ErrorOf(fault))
        ELSE IF fault \in {"fetch", "convert"}
        THEN Except(fetched, ErrorOf(fault))
        ELSE IF "_id" \in Range(df.columns)
        THEN IF fault = "drop"
             THEN Except(fetched, ErrorOf(fault))
             ELSE Return(Append(fetched, LogInfo(MsgCompleted)), DropColumn(df, "_id"))
        ELSE Return(Append(fetched, LogInfo(MsgCompleted)), df)

\* A second implementation of the DataIngestionStrategy interface
\* (data_ingestion.py:11-23), with a result no MongoDB ingestion gives:
\* it returns a fixed one-row frame, or raises its own error.
OtherFrame == [columns |-> <<"other">>, index |-> <<0>>, values |-> << <<"v1">> >>]
OtherIngest(connection_details, fault, coll) ==
    IF fault = "none" THEN Return(<<>>, OtherFrame)
    ELSE Raise(<<>>, "other_error")

Strategies == {"mongo", "other"}

\* strategy.ingest(connection_details): dynamic dispatch on the strategy object
StrategyIngest(s, connection_details, fault, coll) ==
    IF s = "mongo" THEN MongoIngest(connection_details, fault, coll)
    ELSE OtherIngest(connection_details, fault, coll)

\* --------------------------------------------- DropMissingValuesStrategy
\* a mutant of DropMissingValuesClean: dropna(inplace=True) on the argument
DropMissingValuesClean_InPlace(df) == [data |-> DropNa(df), ret |-> DropNa(df)]

\* DropMissingValuesStrategy.clean(data) (data_cleaning.py:20-30): the
\* argument after the call, and the value returned
DropMissingValuesClean(df) == [data |-> df, ret |-> DropNa(df)]

\* ------------------------------------------------------------------ state
VARIABLES
    strategy,   \* DataIngestor._strategy
    ctor,       \* history: the strategy given to the constructor
    lastSet,    \* history: the strategy given to the constructor or to the
                \* most recent set_strategy call
    store,      \* the documents of the MongoDB collection, in find() order
    outcome,    \* the most recent call on the DataIngestor and how it ended
    events,     \* log entries and client operations of that call, in order
    data,       \* the frame returned by the most recent ingest_data call (or
                \* supplied by the caller), NoFrame if there is none
    cleaned,    \* DropMissingValuesStrategy.clean(data), NoFrame before the call
    recleaned   \* DropMissingValuesStrategy.clean(cleaned), NoFrame before the call

vars == <<strategy, ctor, lastSet, store, outcome, events, data, cleaned, recleaned>>

\* ----------------------------------------------------------------- inputs
DetailValues == {Absent, "", "x"}
Details == [uri : DetailValues, database : DetailValues, collection : DetailValues]
NoDetails == [uri |-> Absent, database |-> Absent, collection |-> Absent]

\* the mappings a call is made with: every one for the MongoDB strategy, which
\* reads them; three for the other strategy, which does not
DetailsFor(s) ==
    IF s = "mongo" THEN Details
    ELSE {d \in Details : d.database = d.uri /\ d.collection = d.uri}

Documents == [_id : {Absent, "oid"}, a : {Absent, None, "v1"}, b : {Absent, "v1"}]
\* the collections of n documents
Collections(n) == [1..n -> Documents]

\* the mappings that have every required key with a value
UsableDetails == {d \in Details : d.uri = "x" /\ d.database = "x" /\ d.collection = "x"}

\* the faults that can show in a call: a step that is not reached cannot fail
ReachableFaults(s, connection_details) ==
    IF s = "mongo"
    THEN IF All([i \in 1..Len(RequiredKeys) |-> Get(connection_details, RequiredKeys[i])])
         THEN Faults ELSE {"none"}
    ELSE {"none", "fetch"}

\* frames a caller can hand to a cleaning strategy
ColumnLists == {<<>>, <<"a">>, <<"b">>, <<"a", "b">>, <<"b", "a">>}
CellValues == {NaN, None, "v1", "v2"}
IndexLists == {ix \in UNION {[1..n -> 0..MaxRows] : n \in 0..MaxRows} :
                  \A i \in 1..Len(ix), j \in 1..Len(ix) : i < j => ix[i] < ix[j]}
FramesOf(c, ix) ==
    [columns : {c}, index : {ix},
     values : [1..Len(ix) -> [1..Len(c) -> CellValues]]]

\* ------------------------------------------------------------ DataIngestor
\* (after: how the ingest_data call right before this call ended, "-" if the
\* call before was not an ingest_data call)
NoCall == [op |-> "init", by |-> "-", details |-> NoDetails, fault |-> "none",
           status |-> "-", error |-> "-", after |-> "-"]

\* DataIngestor.__init__(strategy) (data_ingestion.py:76-83), with a
\* collection in the store and nothing ingested yet
Init ==
    /\ strategy \in Strategies
    /\ ctor = strategy
    /\ lastSet = strategy
    /\ \E n \in 0..MaxStore : store \in Collections(n)
    /\ outcome = NoCall
    /\ events = <<>>
    /\ data = NoFrame
    /\ cleaned = NoFrame
    /\ recleaned = NoFrame

\* a mutant of SetStrategy: the entry is logged, the reference is not replaced
SetStrategy_NoAssign(s) ==
    /\ events' = <<LogInfo(MsgSwitching)>>
    /\ strategy' = strategy
    /\ lastSet' = s
    /\ outcome' = [NoCall EXCEPT !.op = "set_strategy", !.status = "returned"]
    /\ UNCHANGED <<ctor, store, data, cleaned, recleaned>>

\* DataIngestor.set_strategy(strategy) (data_ingestion.py:85-93)
SetStrategy(s) ==
    /\ events' = <<LogInfo(MsgSwitching)>>
    /\ strategy' = s
    /\ lastSet' = s
    /\ outcome' = [NoCall EXCEPT !.op = "set_strategy", !.status = "returned"]
    /\ UNCHANGED <<ctor, store, data, cleaned, recleaned>>

\* a mutant of IngestDataCall: a failed ingestion falls back to the MongoDB strategy
IngestDataCall_Fallback(self, connection_details, fault, coll) ==
    LET r == StrategyIngest(self, connection_details, fault, coll)
    IN [strategy |-> IF r.status = "raised" THEN "mongo" ELSE self,
        by       |-> self,
        result   |-> [r EXCEPT !.events = <<LogInfo(MsgIngesting)>> \o r.events]]

\* DataIngestor.ingest_data(connection_details) (data_ingestion.py:95-106) on
\* an ingestor whose _strategy is self: the _strategy after the call, the
\* strategy whose ingest ran, and the result of the call
IngestDataCall(self, connection_details, fault, coll) ==
    LET r == StrategyIngest(self, connection_details, fault, coll)
    IN [strategy |-> self,
        by       |-> self,
        result   |-> [r EXCEPT !.events = <<LogInfo(MsgIngesting)>> \o r.events]]

\* a call of ingest_data by the caller, who keeps the returned frame in data
IngestData(connection_details, fault) ==
    LET c == IngestDataCall(strategy, connection_details, fault, store)
    IN /\ strategy' = c.strategy
       /\ outcome' = [op |-> "ingest_data", by |-> c.by,
                      details |-> connection_details, fault |-> fault,
                      status |-> c.result.status, error |-> c.result.error,
                      after |-> IF outcome.op = "ingest_data"
                                THEN outcome.status ELSE "-"]
       /\ events' = c.result.events
       /\ data' = c.result.df
       /\ cleaned' = NoFrame
       /\ recleaned' = NoFrame
       /\ UNCHANGED <<ctor, lastSet, store>>

\* cleaned = DropMissingValuesStrategy().clean(data)
Clean ==
    /\ data # NoFrame
    /\ LET c == DropMissingValuesClean(data)
       IN /\ data' = c.data
          /\ cleaned' = c.ret
    /\ recleaned' = NoFrame
    /\ UNCHANGED <<strategy, ctor, lastSet, store, outcome, events>>

\* recleaned = DropMissingValuesStrategy().clean(cleaned)
CleanAgain ==
    /\ cleaned # NoFrame
    /\ LET c == DropMissingValuesClean(cleaned)
       IN /\ cleaned' = c.data
          /\ recleaned' = c.ret
    /\ UNCHANGED <<strategy, ctor, lastSet, store, outcome, events, data>>

Next ==
    \/ \E s \in Strategies : SetStrategy(s)
    \/ \E d \in DetailsFor(strategy) : \E f \in ReachableFaults(strategy, d) : IngestData(d, f)

\* the ingestor with its strategies, called with any connection_details
Spec == Init /\ [][Next]_vars

\* an ingestor with the MongoDB strategy and a collection in the store
InitPipeline ==
    /\ strategy = "mongo"
    /\ ctor = strategy
    /\ lastSet = strategy
    /\ \E n \in 0..MaxRecords : store \in Collections(n)
    /\ outcome = NoCall
    /\ events = <<>>
    /\ data = NoFrame
    /\ cleaned = NoFrame
    /\ recleaned = NoFrame

NextPipeline ==
    \/ \E d \in UsableDetails : \E f \in Faults : IngestData(d, f)
    \/ Clean
    \/ CleanAgain

\* ingestion with valid connection_details, then cleaning of what was ingested
SpecPipeline == InitPipeline /\ [][NextPipeline]_vars

\* a cleaning strategy applied to a frame the caller supplies
InitClean ==
    /\ strategy = "mongo"
    /\ ctor = strategy
    /\ lastSet = strategy
    /\ store = <<>>
    /\ outcome = NoCall
    /\ events = <<>>
    /\ \E c \in ColumnLists : \E ix \in IndexLists : data \in FramesOf(c, ix)
    /\ cleaned = NoFrame
    /\ recleaned = NoFrame

NextClean ==
    \/ Clean
    \/ CleanAgain

SpecClean == InitClean /\ [][NextClean]_vars

\* ---------------------------------------------------------------- claims
\* the most recent call was ingest_data and ran the MongoDB strategy
MongoCall == outcome.op = "ingest_data" /\ outcome.by = "mongo"

\* a mapping in which a required key is absent or has an empty value
MissingDetail(d) ==
    \E k \in {"uri", "database", "collection"} : d[k] = Absent \/ d[k] = ""

Count(s, e) == Cardinality({i \in 1..Len(s) : s[i] = e})

\* a value that is missing: None or NaN
Missing(v) == v = None \/ v = NaN

\* C1: when one of 'uri', 'database', 'collection' is absent or empty,
\* MongoDBIngestionStrategy.ingest fails with ValueError, returns nothing
\* and never constructs the MongoClient
C1_ConfigErrorBeforeConnect ==
    (MongoCall /\ MissingDetail(outcome.details)) =>
        /\ outcome.status = "raised"
        /\ outcome.error = "ValueError"
        /\ data = NoFrame
        /\ \A i \in 1..Len(events) : events[i].ev # "io"

C1_Witness ==
    /\ MongoCall
    /\ outcome.details = [uri |-> "x", database |-> "", collection |-> "x"]
    /\ outcome.status = "raised"

\* the position of label l in the index of frame df
PosOf(df, l) == CHOOSE i \in 1..Len(df.index) : df.index[i] = l

\* row i of frame df has no missing value in any column
CompleteRow(df, i) == \A j \in 1..Len(df.columns) : ~Missing(df.values[i][j])

\* frame out holds exactly the complete rows of frame in, in the order of in
ExactlyCompleteRows(in, out) ==
    /\ Len(out.values) = Len(out.index)
    /\ Cardinality(Range(out.index)) = Len(out.index)
    /\ \A i \in 1..Len(in.index) :
          in.index[i] \in Range(out.index) <=> CompleteRow(in, i)
    /\ Range(out.index) \subseteq Range(in.index)
    /\ \A k \in 1..Len(out.index) :
          out.values[k] = in.values[PosOf(in, out.index[k])]
    /\ \A k \in 1..Len(out.index), m \in 1..Len(out.index) :
          k < m => PosOf(in, out.index[k]) < PosOf(in, out.index[m])

\* C2: clean(D) holds exactly the rows of D without a missing value, in the
\* order they have in D, and is empty when every row of D misses a value
C2_ExactlyCompleteRows ==
    cleaned # NoFrame =>
        /\ ExactlyCompleteRows(data, cleaned)
        /\ ((\A i \in 1..Len(data.index) : ~CompleteRow(data, i))
               => cleaned.index = <<>>)

\* rows [(1, missing), (2, 3)] over [a, b] give [(2, 3)]
C2_Witness ==
    /\ data = [columns |-> <<"a", "b">>, index |-> <<0, 1>>,
               values |-> << <<"v1", NaN>>, <<"v2", "v1">> >>]
    /\ cleaned = [columns |-> <<"a", "b">>, index |-> <<1>>,
                  values |-> << <<"v2", "v1">> >>]

\* C3: clean(clean(D)) = clean(D): same columns, same rows, same order
C3_Idempotent ==
    recleaned # NoFrame => recleaned = cleaned

C3_Witness ==
    /\ recleaned # NoFrame
    /\ Len(data.index) = 2
    /\ ~CompleteRow(data, 1)
    /\ ~CompleteRow(data, 2)
    /\ Len(data.columns) = 2

\* C4: ingest_data delegates to the strategy of the most recent set_strategy
\* call, or the constructor's when there was none: its result, failure and
\* log are those of that strategy's ingest for the same connection_details
C4_DelegatesToLastSet ==
    outcome.op = "ingest_data" =>
        LET r == StrategyIngest(lastSet, outcome.details, outcome.fault, store)
        IN /\ outcome.by = lastSet
           /\ outcome.status = r.status
           /\ outcome.error = r.error
           /\ data = r.df
           /\ events = <<LogInfo(MsgIngesting)>> \o r.events

C4_Witness ==
    /\ outcome.op = "ingest_data"
    /\ ctor = "mongo"
    /\ lastSet = "other"
    /\ outcome.status = "returned"
    /\ data = OtherFrame

\* the fields, '_id' aside, that some document of the collection has
DomainFields(coll) ==
    {f \in {"a", "b"} : \E i \in 1..Len(coll) : coll[i][f] # Absent}

\* C5: with valid connection_details and no failure, ingest returns one row
\* per document in fetch order, and the columns are the union of the
\* documents' fields without '_id'; no document gives no row
C5_RowsAndColumns ==
    /\ (MongoCall /\ ~MissingDetail(outcome.details) /\ outcome.fault = "none")
           => outcome.status = "returned"
    /\ (MongoCall /\ outcome.status = "returned") =>
           /\ Len(data.index) = Len(store)
           /\ Len(data.values) = Len(store)
           /\ \A i \in 1..Len(store) : data.index[i] = i - 1
           /\ Range(data.columns) = DomainFields(store)
           /\ Cardinality(Range(data.columns)) = Len(data.columns)
           /\ \A i \in 1..Len(store) :
                 /\ Len(data.values[i]) = Len(data.columns)
                 /\ \A j \in 1..Len(data.columns) :
                       IF store[i][data.columns[j]] # Absent
                       THEN data.values[i][j] = store[i][data.columns[j]]
                       ELSE Missing(data.values[i][j])

\* N = 2 documents of which M = 1 has '_id', and it is not the first
C5_Witness ==
    /\ MongoCall
    /\ outcome.status = "returned"
    /\ Len(store) = 2
    /\ store[1]["_id"] = Absent
    /\ store[2]["_id"] # Absent
    /\ Len(data.index) = 2

\* a step of the most recent MongoDB ingestion failed
StepFailed ==
    \/ MissingDetail(outcome.details)
    \/ outcome.fault \in {"connect", "fetch", "convert"}
    \/ outcome.fault = "drop" /\ \E i \in 1..Len(store) : store[i]["_id"] # Absent

\* the fault of the failed step
FaultRaised ==
    IF MissingDetail(outcome.details) THEN "ValueError"
    ELSE ErrorOf(outcome.fault)

\* C6: a failing step of ingest gives one error entry carrying the fault,
\* then the same fault is raised: no frame, no success entry; a call that
\* returns a frame logged the success entry and no error entry
C6_FailureLoggedAndRaised ==
    MongoCall =>
        /\ StepFailed =>
              /\ outcome.status = "raised"
              /\ outcome.error = FaultRaised
              /\ data = NoFrame
              /\ Count(events, LogError(FaultRaised)) = 1
              /\ \A i \in 1..Len(events) :
                    events[i].ev = "error" => i = Len(events)
              /\ events[Len(events)] = LogError(FaultRaised)
              /\ Count(events, LogInfo(MsgCompleted)) = 0
        /\ ~StepFailed =>
              /\ outcome.status = "returned"
              /\ data # NoFrame
              /\ Count(events, LogInfo(MsgCompleted)) = 1
              /\ \A i \in 1..Len(events) : events[i].ev # "error"

C6_Witness ==
    /\ MongoCall
    /\ outcome.fault = "drop"
    /\ outcome.status = "raised"
    /\ Len(store) = 1

\* C7: one ingest_data call makes at most one connection attempt and at most
\* one fetch, and a failed connection attempt ends it with that failure
C7_NoRetry ==
    outcome.op = "ingest_data" =>
        /\ Count(events, Io("MongoClient")) <= 1
        /\ Count(events, Io("find")) <= 1
        /\ Cardinality({i \in 1..Len(events) : events[i].ev = "io"}) <= 2
        /\ (MongoCall /\ outcome.fault = "connect") =>
              /\ outcome.status = "raised"
              /\ outcome.error = ErrorOf("connect")
              /\ Count(events, Io("MongoClient")) = 1
              /\ Count(events, Io("find")) = 0
              /\ events[Len(events)] = LogError(ErrorOf("connect"))

C7_Witness ==
    /\ MongoCall
    /\ outcome.fault = "connect"
    /\ outcome.status = "raised"
    /\ Count(events, Io("MongoClient")) = 1

\* C8: clean leaves its argument as it was and returns a frame with the
\* argument's column names in the argument's order, also with no row left
C8_PureSameColumns ==
    [][ /\ (cleaned = NoFrame /\ cleaned' # NoFrame) =>
               (data' = data /\ cleaned'.columns = data.columns)
        /\ (recleaned = NoFrame /\ recleaned' # NoFrame) =>
               (cleaned' = cleaned /\ recleaned'.columns = cleaned.columns)
      ]_vars

C8_Witness ==
    /\ cleaned # NoFrame
    /\ Len(data.index) = 2
    /\ cleaned.index = <<>>
    /\ cleaned.columns = <<"b", "a">>

\* C9: the ingestor always holds one strategy, only set_strategy changes
\* it, and ingest_data leaves it as it was whether it returns or fails, so
\* an ingestion after a failed one runs the same strategy
C9_OnlySetStrategyChanges ==
    [][ /\ strategy \in Strategies /\ strategy' \in Strategies
        /\ strategy' # strategy => outcome'.op = "set_strategy"
        /\ outcome'.op = "ingest_data" =>
               (strategy' = strategy /\ outcome'.by = strategy)
        /\ (outcome.op = "ingest_data" /\ outcome.status = "raised"
                /\ outcome'.op = "ingest_data") => outcome'.by = outcome.by
      ]_vars

\* an ingestion by the strategy set with set_strategy, right after an
\* ingestion that failed
C9_Witness ==
    /\ outcome.op = "ingest_data"
    /\ outcome.after = "raised"
    /\ outcome.status = "returned"
    /\ outcome.by = "other"
    /\ strategy = "other"
    /\ ctor = "mongo"

\* the documents of coll, by position, that have a value that is not
\* missing for every field some document of coll has ('_id' aside)
FullDocuments(coll) ==
    {i \in 1..Len(coll) : \A f \in DomainFields(coll) : coll[i][f] \notin {Absent, None}}

\* C10: cleaning what was ingested keeps a document if and only if it has a
\* value that is not missing for every field, '_id' aside, of any document
\* of the collection; kept documents stay in fetch order
C10_IngestThenClean ==
    (MongoCall /\ cleaned # NoFrame) =>
        /\ Range(cleaned.index) = {i - 1 : i \in FullDocuments(store)}
        /\ Len(cleaned.index) = Cardinality(FullDocuments(store))
        /\ \A k \in 1..Len(cleaned.index), m \in 1..Len(cleaned.index) :
              k < m => cleaned.index[k] < cleaned.index[m]
        /\ \A k \in 1..Len(cleaned.index) : \A j \in 1..Len(cleaned.columns) :
              cleaned.values[k][j] = store[cleaned.index[k] + 1][cleaned.columns[j]]

\* the first document lacks field b, which the second has
C10_Witness ==
    /\ MongoCall
    /\ cleaned # NoFrame
    /\ Len(store) = 2
    /\ store[1] = [_id |-> "oid", a |-> "v1", b |-> Absent]
    /\ store[2] = [_id |-> "oid", a |-> "v1", b |-> "v1"]
    /\ cleaned.index = <<1>>

====
